---------------------------- MODULE Spec2Model ----------------------------
(***************************************************************************)
(* Model of python_ui/utils/node_runner.py (class NodeRunner): the job     *)
(* supervisor that runs the Node controller as a subprocess, reads its     *)
(* stdout on a reader thread, emits Qt signals and supports stop().        *)
(*                                                                         *)
(* Threads: one main (GUI) thread, which calls run_command and stop from   *)
(* MainWindow's slots, and one reader thread per accepted run_command      *)
(* (threading.Thread(target=_run_process)).  NodeRunner holds no lock, so  *)
(* every read and write of self.is_running and self.process is a step of   *)
(* its own and the steps of different threads interleave freely.           *)
(*                                                                         *)
(* Job j's reader thread is thread j; the worker process it creates with   *)
(* Popen is process j.  The handle self.process is 0 for None, otherwise   *)
(* the id of the process object it refers to.                              *)
(***************************************************************************)
EXTENDS Integers, Sequences, FiniteSets, TLC

\* Bounds of the model.
MaxJobs == 2          \* run_command calls that are accepted (threads started)
MaxLines == 2         \* stdout lines the workers print, all together
MaxCalls == 3         \* run_command and stop calls of the main thread

Jobs == 1..MaxJobs
None == 0
ExitCodes == {0, 1}

(***************************************************************************)
(* One stdout line of the worker, by what json.loads and the handler make  *)
(* of it.                                                                  *)
(*   progress  {"type":"progress","value":50,"step":"Uploading"}           *)
(*   success   {"type":"success","message":"Done"}                         *)
(*   number    42: valid JSON that is not an object                        *)
(***************************************************************************)
WorkerLines == {"progress", "success", "number"}

VARIABLES
    is_running,     \* self.is_running
    process,        \* self.process: None or a process id
    tpc,            \* reader thread j's position in _run_process
    rd,             \* reader j: the process whose stdout.readline it iterates
    wt,             \* reader j: the process object it is blocked on (wait, stderr.read)
    cur,            \* reader j: the line it has read and not yet decoded
    err,            \* reader j: the exception caught by "except Exception"
    pstate,         \* process p: "none" (not created), "alive", "exited"
    rpos,           \* process p: number of stdout lines consumed by readline
    eof,            \* process p: readline has returned b'' (end of file)
    code,           \* process p: exit code (meaningful once exited)
    drained,        \* process p: its stderr pipe has been read to EOF
    termReq,        \* process p: terminate() was called on it
    killReq,        \* process p: kill() was called on it
    mpc,            \* main thread: "idle" or its position in stop
    starget,        \* stop: the process it called terminate() on
    swt,            \* stop: the process object it waits on
    calls,          \* number of run_command / stop calls made
    op,             \* the last call of the main thread
    ret,            \* its result: "True", "False", "raised" (an exception), "pending"
    snap,           \* the supervisor's state when the last stop was called
    events,         \* the signals emitted, per job, in emission order
    line,           \* decoder: the stdout line handed to the loop body
    decoded,        \* decoder: what the loop body did with it
    upload_folder,  \* scan_folder: its argument, and what the path refers to
    listing,        \* scan_folder: the entries os.listdir has yielded so far
    scan_pc,        \* scan_folder: "idle", "loop", "returned" or "raised"
    video_data_list, \* scan_folder: the items appended so far
    posted_dir,     \* <folder>/Posted: "absent", "dir" or "blocked" (cannot be made)
    status_file,    \* <folder>/Posted/status.json as it is on disk
    committed,      \* the last marker that was on disk complete
    mark,           \* handle_mark_posted: position, result, state at the call
    ui_status,      \* the item's status in VideoQueuePage.video_data
    ui_log,         \* number of 'Marked as posted' logs added to the logs page
    chk,            \* a scan's check_posted_status of the folder
    video_data,     \* VideoQueuePage.video_data: the in-memory queue
    markers         \* Posted/status.json of each folder of the upload folder

runnerVars == <<is_running, process, tpc, rd, wt, cur, err, pstate, rpos, eof,
          code, drained, termReq, killReq, mpc, starget, swt, calls, op, ret,
          snap, events>>

decoderVars == <<line, decoded>>
scanVars == <<upload_folder, listing, scan_pc, video_data_list>>
markVars == <<posted_dir, status_file, committed, mark, ui_status, ui_log, chk>>
queueVars == <<video_data, markers>>
extraVars == <<decoderVars, scanVars, markVars, queueVars>>

vars == <<runnerVars, extraVars>>

readerVars == <<tpc, rd, wt, cur, err>>
procVars == <<pstate, rpos, eof, code, drained>>
sigVars == <<termReq, killReq>>
mainVars == <<mpc, starget, swt, calls, op, ret, snap>>

\* ------------------------------------------------------------------ events

NoLine == <<0, 0, "">>

\* log_received.emit({'level': ..., 'message': ..., 'timestamp': ...})
LogEvent(j, level, msg, p, i) ==
    [kind |-> "Log", job |-> j, level |-> level, msg |-> msg,
     proc |-> p, idx |-> i, ok |-> FALSE, text |-> 0]

\* progress_updated.emit(value, step)
ProgressEvent(j, p, i) ==
    [kind |-> "Progress", job |-> j, level |-> "", msg |-> "",
     proc |-> p, idx |-> i, ok |-> FALSE, text |-> 0]

\* command_completed.emit(success, message); text is the stderr text the
\* message carries: the id of the process whose stderr was read, 0 for none.
CompletionEvent(j, success, msg, text) ==
    [kind |-> "Completion", job |-> j, level |-> "", msg |-> msg,
     proc |-> 0, idx |-> 0, ok |-> success, text |-> text]

(***************************************************************************)
(* events[k] is the log of job k: the events decoded from lines of worker  *)
(* k's stdout (by whichever reader thread read them), the Completion of    *)
(* reader thread k, and the warn Log of a stop that terminated worker k.   *)
(* events[0] holds the Logs of no job (a rejected run_command).  The       *)
(* order of emission is kept within a job, not across jobs.                *)
(***************************************************************************)
LogOf(e) == IF e.kind = "Completion" THEN e.job ELSE e.proc

Emit(e) == events' = [events EXCEPT ![LogOf(e)] = Append(@, e)]

Started(j) == tpc[j] # "unstarted"
Active(j) == tpc[j] \notin {"unstarted", "done"}
Count(log, kind, level) ==
    Cardinality({i \in 1..Len(log) : log[i].kind = kind /\ log[i].level = level})
Completions(j) == Count(events[j], "Completion", "")
Sum(f, S) ==
    LET RECURSIVE Add(_)
        Add(T) == IF T = {} THEN 0
                  ELSE LET x == CHOOSE y \in T : TRUE IN f[x] + Add(T \ {x})
    IN Add(S)
WarnLogs == Sum([k \in 0..MaxJobs |-> Count(events[k], "Log", "warn")], 0..MaxJobs)
ErrorLogs == Sum([k \in 0..MaxJobs |-> Count(events[k], "Log", "error")], 0..MaxJobs)

\* ------------------------------------------------------------------- Init

InitRunner ==
    /\ is_running = FALSE
    /\ process = None
    /\ tpc = [j \in Jobs |-> "unstarted"]
    /\ rd = [j \in Jobs |-> None]
    /\ wt = [j \in Jobs |-> None]
    /\ cur = [j \in Jobs |-> NoLine]
    /\ err = [j \in Jobs |-> ""]
    /\ pstate = [p \in Jobs |-> "none"]
    /\ rpos = [p \in Jobs |-> 0]
    /\ eof = [p \in Jobs |-> FALSE]
    /\ code = [p \in Jobs |-> 0]
    /\ drained = [p \in Jobs |-> FALSE]
    /\ termReq = [p \in Jobs |-> FALSE]
    /\ killReq = [p \in Jobs |-> FALSE]
    /\ mpc = "idle"
    /\ starget = None
    /\ swt = None
    /\ calls = 0
    /\ op = "none"
    /\ ret = "pending"
    /\ snap = [running |-> FALSE, handle |-> None, pending |-> FALSE,
               inflight |-> FALSE, warns |-> 0, terms |-> {}, kills |-> {}]
    /\ events = [k \in 0..MaxJobs |-> <<>>]

InitDecoder ==
    /\ line = <<>>
    /\ decoded = [raised |-> FALSE, out |-> <<>>]

InitScan ==
    /\ upload_folder = [path |-> "", kind |-> "missing"]
    /\ listing = <<>>
    /\ scan_pc = "idle"
    /\ video_data_list = <<>>

InitMark ==
    /\ posted_dir = "absent"
    /\ status_file = [state |-> "missing", json |-> "invalid", posted |-> "<absent>"]
    /\ committed = status_file
    /\ mark = [pc |-> "idle", result |-> "none", count |-> 0,
               was_status |-> "UNPOSTED", was_log |-> 0]
    /\ ui_status = "UNPOSTED"
    /\ ui_log = 0
    /\ chk = [pc |-> "idle", status |-> "", seen |-> status_file, quiet |-> TRUE,
              after |-> "none", ok |-> {}, count |-> 0]

\* VideoQueuePage.__init__: self.video_data = []
InitQueue ==
    /\ video_data = <<>>
    /\ markers = [f \in {"a", "b"} |->
                    [state |-> "missing", json |-> "invalid", posted |-> "<absent>"]]

Init == InitRunner /\ InitDecoder /\ InitScan /\ InitMark /\ InitQueue

\* ---------------------------------------------------------------- decoder

\* json.loads(line_str): "object" (a dict), "nonobject" (any other JSON
\* value) or "invalid" (json.JSONDecodeError).
JsonLoads(l) ==
    CASE l \in {"progress", "success"} -> "object"
      [] l = "number" -> "nonobject"
      [] OTHER -> "invalid"

\* data.get('type') of a parsed object.
MsgType(l) ==
    CASE l = "progress" -> "progress"
      [] l = "success" -> "success"
      [] OTHER -> "absent"

\* _handle_json_message(data) for a dict: the event it emits, as a set
\* (empty when the type is none of the handled ones).
HandleJsonMessage(j, l, p, i) ==
    CASE MsgType(l) = "progress" -> {ProgressEvent(j, p, i)}
      [] MsgType(l) = "success" -> {LogEvent(j, "success", "Done", p, i)}
      [] OTHER -> {}

\* The except json.JSONDecodeError branch: the line with ANSI colour codes
\* removed is logged at level info when anything remains.
FallbackLog(j, l, p, i) == {LogEvent(j, "info", l, p, i)}

\* ------------------------------------------------------------ main thread

Snapshot ==
    [running |-> is_running, handle |-> process,
     pending |-> \E j \in Jobs : tpc[j] = "start",
     inflight |-> \E j \in Jobs : Started(j) /\ Completions(j) = 0,
     warns |-> WarnLogs,
     terms |-> {p \in Jobs : termReq[p]},
     kills |-> {p \in Jobs : killReq[p]}]

NoSnap ==
    [running |-> FALSE, handle |-> None, pending |-> FALSE,
     inflight |-> FALSE, warns |-> 0, terms |-> {}, kills |-> {}]

NextJob == CHOOSE j \in Jobs : tpc[j] = "unstarted" /\ \A k \in Jobs : tpc[k] = "unstarted" => j <= k

\* run_command with the "return False" of its first branch lost: the error
\* is logged and the thread is started all the same.
RunCommandRejected_FallsThrough ==
    /\ is_running
    /\ Emit(LogEvent(0, "error", "Another command is already running", 0, 0))
    /\ \E j \in Jobs : tpc[j] = "unstarted"
    /\ tpc' = [tpc EXCEPT ![NextJob] = "start"]
    /\ ret' = "True"
    /\ UNCHANGED <<is_running, process, rd, wt, cur, err>>

\* run_command, first branch: "if self.is_running:" emits the error log and
\* returns False.
RunCommandRejected ==
    /\ is_running
    /\ Emit(LogEvent(0, "error", "Another command is already running", 0, 0))
    /\ ret' = "False"
    /\ UNCHANGED <<is_running, process, readerVars>>

\* run_command, second branch: builds cmd, starts the daemon thread on
\* _run_process and returns True.
RunCommandAccepted ==
    /\ ~is_running
    /\ \E j \in Jobs : tpc[j] = "unstarted"
    /\ tpc' = [tpc EXCEPT ![NextJob] = "start"]
    /\ ret' = "True"
    /\ UNCHANGED <<is_running, process, rd, wt, cur, err, events>>

RunCommand ==
    /\ mpc = "idle"
    /\ calls < MaxCalls
    /\ calls' = calls + 1
    /\ op' = "run_command"
    /\ (RunCommandRejected \/ RunCommandAccepted)
    /\ UNCHANGED <<procVars, sigVars, mpc, starget, swt, snap>>
    /\ UNCHANGED extraVars

\* stop is left, by return or by an exception; its locals die with it.
StopReturn(r) ==
    /\ mpc' = "idle"
    /\ ret' = r
    /\ starget' = None
    /\ swt' = None
    /\ snap' = NoSnap

StopGoto(pc) ==
    /\ mpc' = pc
    /\ UNCHANGED <<ret, snap>>

\* MainWindow.handle_stop calls self.node_runner.stop(), which begins with
\* "if self.process and ...": the handle is read first and None
\* short-circuits to "return False".
StopCall ==
    /\ mpc = "idle"
    /\ calls < MaxCalls
    /\ calls' = calls + 1
    /\ op' = "stop"
    /\ IF process = None
         THEN StopReturn("False")
         ELSE /\ mpc' = "s_chk2"
              /\ ret' = "pending"
              /\ snap' = Snapshot
              /\ UNCHANGED <<starget, swt>>
    /\ UNCHANGED <<is_running, process, readerVars, procVars, sigVars, events>>
    /\ UNCHANGED extraVars

\* stop with the guard "if self.process:" alone, the flag not tested.
StopChkRunning_NoFlagTest ==
    /\ mpc = "s_chk2"
    /\ StopGoto("s_term")
    /\ UNCHANGED <<is_running, process, readerVars, procVars, sigVars,
                   starget, swt, calls, op, events>>
    /\ UNCHANGED extraVars

\* "... and self.is_running:"
StopChkRunning ==
    /\ mpc = "s_chk2"
    /\ IF is_running THEN StopGoto("s_term") /\ UNCHANGED <<starget, swt>>
                     ELSE StopReturn("False")
    /\ UNCHANGED <<is_running, process, readerVars, procVars, sigVars,
                   calls, op, events>>
    /\ UNCHANGED extraVars

\* self.process.terminate(): the handle is read again; on None the
\* attribute access raises AttributeError, which stop does not catch.
StopTerminate ==
    /\ mpc = "s_term"
    /\ IF process = None
         THEN StopReturn("raised") /\ UNCHANGED termReq
         ELSE /\ termReq' = [termReq EXCEPT ![process] = TRUE]
              /\ starget' = process
              /\ swt' = swt
              /\ StopGoto("s_wait")
    /\ UNCHANGED <<is_running, process, readerVars, procVars, killReq,
                   calls, op, events>>
    /\ UNCHANGED extraVars

\* self.process.wait(timeout=5): the handle is read a third time, then the
\* main thread blocks on that object.
StopWaitCall ==
    /\ mpc = "s_wait"
    /\ IF process = None
         THEN StopReturn("raised")
         ELSE swt' = process /\ starget' = starget /\ StopGoto("s_waiting")
    /\ UNCHANGED <<is_running, process, readerVars, procVars, sigVars,
                   calls, op, events>>
    /\ UNCHANGED extraVars

\* wait returns, the process having exited within the grace period, and
\* stop goes on to "self.is_running = False".
StopWaitReturn ==
    /\ mpc = "s_waiting"
    /\ pstate[swt] = "exited"
    /\ is_running' = FALSE
    /\ StopGoto("s_log")
    /\ UNCHANGED <<process, readerVars, procVars, sigVars, starget, swt,
                   calls, op, events>>
    /\ UNCHANGED extraVars

\* wait raises subprocess.TimeoutExpired: the process is still alive after
\* the grace period.
StopWaitTimeout ==
    /\ mpc = "s_waiting"
    /\ pstate[swt] = "alive"
    /\ StopGoto("s_kill")
    /\ UNCHANGED <<is_running, process, readerVars, procVars, sigVars,
                   starget, swt, calls, op, events>>
    /\ UNCHANGED extraVars

\* except subprocess.TimeoutExpired: self.process.kill(); the handle is
\* read a fourth time.
StopKill ==
    /\ mpc = "s_kill"
    /\ IF process = None
         THEN StopReturn("raised") /\ killReq' = killReq
         ELSE /\ killReq' = [killReq EXCEPT ![process] = TRUE]
              /\ UNCHANGED <<starget, swt>>
              /\ StopGoto("s_flag")
    /\ UNCHANGED <<is_running, process, readerVars, procVars, termReq,
                   calls, op, events>>
    /\ UNCHANGED extraVars

\* self.is_running = False, after the kill.
StopClearFlag ==
    /\ mpc = "s_flag"
    /\ is_running' = FALSE
    /\ StopGoto("s_log")
    /\ UNCHANGED <<process, readerVars, procVars, sigVars, starget, swt,
                   calls, op, events>>
    /\ UNCHANGED extraVars

\* log_received.emit({'level': 'warn', ...}); return True.  The log is the
\* log of the job whose worker stop terminated.
StopLog ==
    /\ mpc = "s_log"
    /\ Emit(LogEvent(0, "warn", "Process stopped by user", starget, 0))
    /\ StopReturn("True")
    /\ UNCHANGED <<is_running, process, readerVars, procVars, sigVars,
                   calls, op>>
    /\ UNCHANGED extraVars

Stop ==
    \/ StopCall
    \/ StopChkRunning
    \/ StopTerminate
    \/ StopWaitCall
    \/ StopWaitReturn
    \/ StopWaitTimeout
    \/ StopKill
    \/ StopClearFlag
    \/ StopLog

\* ---------------------------------------------------------- reader thread

Raise(j, e) ==
    /\ tpc' = [tpc EXCEPT ![j] = "except"]
    /\ err' = [err EXCEPT ![j] = e]

Goto(j, pc) ==
    /\ tpc' = [tpc EXCEPT ![j] = pc]
    /\ err' = err

\* _run_process without its first statement.
SetRunning_NoFlag(j) ==
    /\ tpc[j] = "start"
    /\ Goto(j, "popen")
    /\ UNCHANGED <<is_running, process, rd, wt, cur, procVars, sigVars,
                   mainVars, events>>
    /\ UNCHANGED extraVars

\* _run_process, first statement: self.is_running = True
SetRunning(j) ==
    /\ tpc[j] = "start"
    /\ is_running' = TRUE
    /\ Goto(j, "popen")
    /\ UNCHANGED <<process, rd, wt, cur, procVars, sigVars, mainVars, events>>
    /\ UNCHANGED extraVars

\* self.process = subprocess.Popen(cmd, ...): creates worker process j and
\* stores its handle, or raises (the executable is missing or cannot be
\* launched) and stores nothing.
PopenSpawned(j) ==
    /\ pstate' = [pstate EXCEPT ![j] = "alive"]
    /\ process' = j
    /\ Goto(j, "iter")

PopenFailed(j) ==
    /\ UNCHANGED <<pstate, process>>
    /\ Raise(j, "spawn")

Popen(j) ==
    /\ tpc[j] = "popen"
    /\ (PopenSpawned(j) \/ PopenFailed(j))
    /\ UNCHANGED <<is_running, rd, wt, cur, rpos, eof, code, drained,
                   sigVars, mainVars, events>>
    /\ UNCHANGED extraVars

\* iter(self.process.stdout.readline, b''): the handle is read back from
\* self; the loop then reads from that object's stdout.
IterStdout(j) ==
    /\ tpc[j] = "iter"
    /\ IF process = None
         THEN Raise(j, "attr") /\ rd' = rd
         ELSE Goto(j, "read") /\ rd' = [rd EXCEPT ![j] = process]
    /\ UNCHANGED <<is_running, process, wt, cur, procVars, sigVars, mainVars,
                   events>>
    /\ UNCHANGED extraVars

LinesRead == Sum(rpos, Jobs)

\* readline() returns the next line the worker has printed, whatever it
\* holds.  A worker prints nothing after its pipe was seen at end of file.
ReadLineGot(j) ==
    /\ LinesRead < MaxLines
    /\ ~eof[rd[j]]
    /\ \E l \in WorkerLines :
          cur' = [cur EXCEPT ![j] = <<rd[j], rpos[rd[j]] + 1, l>>]
    /\ rpos' = [rpos EXCEPT ![rd[j]] = @ + 1]
    /\ UNCHANGED <<rd, wt, eof>>
    /\ Goto(j, "decode")

\* readline() returns b'' at end of file: the worker has exited and the
\* pipe is empty.  The for loop ends and self.process.wait() follows: the
\* handle is read from self, then the thread blocks on that object.
ReadLineEOF(j) ==
    /\ pstate[rd[j]] = "exited"
    /\ eof' = [eof EXCEPT ![rd[j]] = TRUE]
    /\ UNCHANGED <<cur, rpos>>
    /\ rd' = [rd EXCEPT ![j] = None]
    /\ IF process = None
         THEN Raise(j, "attr") /\ wt' = wt
         ELSE Goto(j, "waiting") /\ wt' = [wt EXCEPT ![j] = process]

ReadLine(j) ==
    /\ tpc[j] = "read"
    /\ (ReadLineGot(j) \/ ReadLineEOF(j))
    /\ UNCHANGED <<is_running, process, pstate, code, drained, sigVars,
                   mainVars, events>>
    /\ UNCHANGED extraVars

\* The loop body for one non-empty line: json.loads, then
\* _handle_json_message, or the plain-text fallback.  data.get on a value
\* that is not a dict raises AttributeError, which only the outer
\* "except Exception" catches.
DecodeLine(j) ==
    /\ tpc[j] = "decode"
    /\ LET p == cur[j][1]
           i == cur[j][2]
           l == cur[j][3]
           out == CASE JsonLoads(l) = "object" -> HandleJsonMessage(j, l, p, i)
                    [] JsonLoads(l) = "invalid" -> FallbackLog(j, l, p, i)
                    [] OTHER -> {}
       IN /\ IF JsonLoads(l) = "nonobject" THEN Raise(j, "decode")
                                            ELSE Goto(j, "read")
          /\ IF out = {} THEN events' = events
                         ELSE \E e \in out : Emit(e)
    /\ cur' = [cur EXCEPT ![j] = NoLine]
    /\ UNCHANGED <<is_running, process, rd, wt, procVars, sigVars, mainVars>>
    /\ UNCHANGED extraVars

\* What "self.process.returncode == 0" can evaluate to for process object
\* q, read by a thread whose own wait() was on object w.  returncode is set
\* when a wait() or poll() on that very object reaps the process: it is the
\* exit code for q = w, None for a process still alive, and either of the
\* two for another exited process (whether some other thread has already
\* reaped it is not tracked).
ReturncodeIsZero(q, w) ==
    IF pstate[q] # "exited" THEN {FALSE}
    ELSE IF q = w THEN {code[q] = 0}
    ELSE {code[q] = 0, FALSE}

\* wait() returns once the process it blocks on has exited; then
\* "if self.process.returncode == 0:" reads the handle again and emits
\* Completion(True, ...) on 0; otherwise the else branch follows.
WaitReturn(j) ==
    /\ tpc[j] = "waiting"
    /\ pstate[wt[j]] = "exited"
    /\ wt' = [wt EXCEPT ![j] = None]
    /\ IF process = None
         THEN Raise(j, "attr") /\ events' = events
         ELSE \E zero \in ReturncodeIsZero(process, wt[j]) :
                IF zero
                  THEN /\ Emit(CompletionEvent(j, TRUE, "Command completed successfully", 0))
                       /\ Goto(j, "fin1")
                  ELSE /\ events' = events
                       /\ Goto(j, "stderr")
    /\ UNCHANGED <<is_running, process, rd, cur, procVars, sigVars, mainVars>>
    /\ UNCHANGED extraVars

\* self.process.stderr.read(): the handle is read from self, then the
\* thread blocks until that object's stderr reaches end of file.
StderrCall(j) ==
    /\ tpc[j] = "stderr"
    /\ IF process = None
         THEN Raise(j, "attr") /\ wt' = wt
         ELSE Goto(j, "stderr_rd") /\ wt' = [wt EXCEPT ![j] = process]
    /\ UNCHANGED <<is_running, process, rd, cur, procVars, sigVars, mainVars,
                   events>>
    /\ UNCHANGED extraVars

\* read() returns what the pipe still holds (nothing, if another reader
\* drained it) and Completion(False, 'Command failed: ' + stderr) is emitted.
StderrRead(j) ==
    /\ drained' = [drained EXCEPT ![wt[j]] = TRUE]
    /\ Emit(CompletionEvent(j, FALSE, "Command failed",
                            IF drained[wt[j]] THEN 0 ELSE wt[j]))
    /\ Goto(j, "fin1")

\* read() raises (the pipe is closed or the read fails).
StderrFails(j) ==
    /\ UNCHANGED <<drained, events>>
    /\ Raise(j, "stderr")

StderrReturn(j) ==
    /\ tpc[j] = "stderr_rd"
    /\ pstate[wt[j]] = "exited"
    /\ (StderrRead(j) \/ StderrFails(j))
    /\ wt' = [wt EXCEPT ![j] = None]
    /\ UNCHANGED <<is_running, process, rd, cur, pstate, rpos, eof, code,
                   sigVars, mainVars>>
    /\ UNCHANGED extraVars

\* An except clause that swallows the exception and emits nothing.
ExceptHandler_NoEmit(j) ==
    /\ tpc[j] = "except"
    /\ tpc' = [tpc EXCEPT ![j] = "fin1"]
    /\ err' = [err EXCEPT ![j] = ""]
    /\ UNCHANGED <<is_running, process, rd, wt, cur, procVars, sigVars,
                   mainVars, events>>
    /\ UNCHANGED extraVars

\* except Exception as e: command_completed.emit(False, 'Error running
\* command: ' + str(e))
ExceptHandler(j) ==
    /\ tpc[j] = "except"
    /\ Emit(CompletionEvent(j, FALSE, err[j], 0))
    /\ tpc' = [tpc EXCEPT ![j] = "fin1"]
    /\ err' = [err EXCEPT ![j] = ""]
    /\ UNCHANGED <<is_running, process, rd, wt, cur, procVars, sigVars,
                   mainVars>>
    /\ UNCHANGED extraVars

\* finally: self.is_running = False
FinallyFlag(j) ==
    /\ tpc[j] = "fin1"
    /\ is_running' = FALSE
    /\ Goto(j, "fin2")
    /\ UNCHANGED <<process, rd, wt, cur, procVars, sigVars, mainVars, events>>
    /\ UNCHANGED extraVars

\* finally: self.process = None; the thread ends.
FinallyHandle(j) ==
    /\ tpc[j] = "fin2"
    /\ process' = None
    /\ Goto(j, "done")
    /\ UNCHANGED <<is_running, rd, wt, cur, procVars, sigVars, mainVars, events>>
    /\ UNCHANGED extraVars

RunProcess(j) ==
    \/ SetRunning(j)
    \/ Popen(j)
    \/ IterStdout(j)
    \/ ReadLine(j)
    \/ DecodeLine(j)
    \/ WaitReturn(j)
    \/ StderrCall(j)
    \/ StderrReturn(j)
    \/ ExceptHandler(j)
    \/ FinallyFlag(j)
    \/ FinallyHandle(j)

\* ------------------------------------------------------- the worker process

\* The worker exits, on its own or because it was terminated or killed;
\* its pipes reach end of file.
WorkerExit(p, c) ==
    /\ pstate[p] = "alive"
    /\ pstate' = [pstate EXCEPT ![p] = "exited"]
    /\ code' = [code EXCEPT ![p] = c]
    /\ UNCHANGED <<is_running, process, readerVars, rpos, eof, drained,
                   sigVars, mainVars, events>>
    /\ UNCHANGED extraVars

Worker(p) == \E c \in ExitCodes : WorkerExit(p, c)

\* ----------------------------------------------------------- specification

Next ==
    \/ RunCommand
    \/ Stop
    \/ \E j \in Jobs : RunProcess(j)
    \/ \E p \in Jobs : Worker(p)

Spec == Init /\ [][Next]_vars

\* The same program when only one command is ever accepted: the user starts
\* one job and run_command is not called again before the flag is set.
OneJob == \A j \in Jobs : j # 1 => tpc'[j] = "unstarted"

RunOneCommand == RunCommand /\ OneJob

NextOneJob ==
    \/ RunOneCommand
    \/ Stop
    \/ \E j \in Jobs : RunProcess(j)
    \/ \E p \in Jobs : Worker(p)

SpecOneJob == Init /\ [][NextOneJob]_vars

\* The one-job program with its scheduling: a thread that can take a step
\* eventually takes it, and a worker eventually exits.
FairSpecOneJob ==
    /\ SpecOneJob
    /\ WF_vars(Stop)
    /\ \A j \in Jobs : WF_vars(RunProcess(j))
    /\ \A p \in Jobs : WF_vars(Worker(p))

\* --------------------------------------------------- the decoder in detail

MaxLineLen == 3       \* tokens of a plain-text stdout line

(***************************************************************************)
(* A decoded stdout line is a sequence of tokens:                          *)
(*   sp    white space                                                     *)
(*   sgr   a colour escape sequence, ESC[32m                               *)
(*   csi   another terminal escape sequence, ESC[2K (erase line)           *)
(*   txt   plain text, Hello                                               *)
(*   null  the JSON text null: valid JSON that is not an object            *)
(*   obj   the JSON text of an object; d holds its members                 *)
(* Two tokens side by side never join into one JSON text.                  *)
(***************************************************************************)
Absent == "<absent>"

Keys == {"type", "level", "message", "value", "step", "video", "status",
         "timestamp"}

EmptyDict == [k \in Keys |-> Absent]

Objects ==
    [type : {Absent, "log", "progress", "video_status", "success", "error",
             "other"},
     level : {Absent, "warn"},
     message : {Absent, "", "Done"},
     value : {Absent, "50"},
     step : {Absent, "Uploading"},
     video : {Absent, "clip1"},
     status : {Absent, "posted"},
     timestamp : {Absent, "t1"}]

Tok(t) == [t |-> t, d |-> EmptyDict]
ObjTok(o) == [t |-> "obj", d |-> o]

SampleObject == [EmptyDict EXCEPT !["type"] = "success", !["message"] = "Done"]

TextToks == {Tok("sp"), Tok("sgr"), Tok("csi"), Tok("txt"), Tok("null"),
             ObjTok(SampleObject)}

SeqsUpTo(S, n) == UNION {[1..k -> S] : k \in 0..n}

\* The lines a worker can print: any short text, and every object alone.
Lines == SeqsUpTo(TextToks, MaxLineLen) \cup {<<ObjTok(o)>> : o \in Objects}

\* log_received.emit({'level': ..., 'message': ..., 'timestamp': ...})
LogReceived(level, message, timestamp) ==
    [kind |-> "Log", level |-> level, message |-> message,
     timestamp |-> timestamp]

\* progress_updated.emit(value, step)
ProgressUpdated(value, step) ==
    [kind |-> "Progress", value |-> value, step |-> step]

\* video_status_changed.emit(video, status)
VideoStatusChanged(video, status) ==
    [kind |-> "VideoStatus", video |-> video, status |-> status]

\* line.decode(...).strip(): white space is removed at both ends.
Strip(s) ==
    LET RECURSIVE Left(_), Right(_)
        Left(t) == IF t # <<>> /\ Head(t).t = "sp" THEN Left(Tail(t)) ELSE t
        Right(t) == IF t # <<>> /\ t[Len(t)].t = "sp"
                      THEN Right(SubSeq(t, 1, Len(t) - 1)) ELSE t
    IN Right(Left(s))

\* json.loads(line_str) of a stripped line: a value when the line is one
\* JSON text, json.JSONDecodeError otherwise.
JsonLoadsLine(s) ==
    IF Len(s) = 1 /\ s[1].t \in {"obj", "null"}
      THEN [ok |-> TRUE, isdict |-> s[1].t = "obj", data |-> s[1].d]
      ELSE [ok |-> FALSE, isdict |-> FALSE, data |-> EmptyDict]

\* data.get(key, default)
Get(data, key, default) == IF data[key] = Absent THEN default ELSE data[key]

\* _handle_json_message with the success branch emitting at level info.
HandleJsonData_SuccessAsInfo(data) ==
    LET msg_type == data["type"]
    IN CASE msg_type \in {"log", "success"} ->
              <<LogReceived(Get(data, "level", "info"), Get(data, "message", ""),
                            Get(data, "timestamp", ""))>>
         [] msg_type = "progress" ->
              <<ProgressUpdated(Get(data, "value", "0"), Get(data, "step", ""))>>
         [] msg_type = "video_status" ->
              <<VideoStatusChanged(Get(data, "video", ""), Get(data, "status", ""))>>
         [] msg_type = "error" ->
              <<LogReceived("error", Get(data, "message", "Error"),
                            Get(data, "timestamp", ""))>>
         [] OTHER -> <<>>

\* _handle_json_message(data) for a dict: the events it emits, in order.
HandleJsonData(data) ==
    LET msg_type == data["type"]
    IN CASE msg_type = "log" ->
              <<LogReceived(Get(data, "level", "info"), Get(data, "message", ""),
                            Get(data, "timestamp", ""))>>
         [] msg_type = "progress" ->
              <<ProgressUpdated(Get(data, "value", "0"), Get(data, "step", ""))>>
         [] msg_type = "video_status" ->
              <<VideoStatusChanged(Get(data, "video", ""), Get(data, "status", ""))>>
         [] msg_type = "success" ->
              <<LogReceived("success", Get(data, "message", "Success"),
                            Get(data, "timestamp", ""))>>
         [] msg_type = "error" ->
              <<LogReceived("error", Get(data, "message", "Error"),
                            Get(data, "timestamp", ""))>>
         [] OTHER -> <<>>

\* re.sub(r'\x1b\[[0-9;]*m', '', line_str): the colour sequences go, every
\* other escape sequence stays.
ReSubColour(s) == SelectSeq(s, LAMBDA x : x.t # "sgr")

\* The body of the read loop for one line (lines 74-97).  raised: an
\* exception leaves the body (data.get on a value that is not a dict raises
\* AttributeError) and the outer "except Exception" ends the job.
LoopBody(l) ==
    LET line_str == Strip(l)
        r == JsonLoadsLine(line_str)
        clean_line == ReSubColour(line_str)
    IN IF line_str = <<>> THEN [raised |-> FALSE, out |-> <<>>]
       ELSE IF r.ok /\ r.isdict
         THEN [raised |-> FALSE, out |-> HandleJsonData(r.data)]
       ELSE IF r.ok THEN [raised |-> TRUE, out |-> <<>>]
       ELSE [raised |-> FALSE,
             out |-> IF clean_line # <<>>
                       THEN <<LogReceived("info", clean_line, "")>>
                       ELSE <<>>]

\* The reader thread takes one line through the loop body.
Decode ==
    /\ \E l \in Lines :
          /\ line' = l
          /\ decoded' = LoopBody(l)
    /\ UNCHANGED <<runnerVars, queueVars, scanVars, markVars>>

NextDecoder == Decode

SpecDecoder == Init /\ [][NextDecoder]_vars

\* ------------------------------------------------------ the queue repository

MaxEntries == 2       \* entries of the upload folder

ReelLimit == 90000    \* "duration_seconds < 90", in milliseconds

\* The argument of scan_folder: the path string and what it refers to.
Roots ==
    {[path |-> "", kind |-> "missing"],
     [path |-> "/videos", kind |-> "missing"],
     [path |-> "/videos", kind |-> "file"],
     [path |-> "/videos", kind |-> "dir"]}

Names == <<"a", "b", "c">>

\* self.video_extensions
video_extensions == {".mp4", ".mov", ".avi", ".mkv", ".webm", ".flv"}

FileNames ==
    {[stem |-> "clip", ext |-> ".mp4"], [stem |-> "CLIP", ext |-> ".MOV"],
     [stem |-> "caption", ext |-> ".txt"], [stem |-> "notes", ext |-> ""]}

\* What os.listdir(folder_path) can yield: up to two distinct names.
FileLists ==
    {f \in SeqsUpTo(FileNames, 2) : \A i, k \in 1..Len(f) : f[i] = f[k] => i = k}

\* str.lower() of an extension.
Lower(ext) ==
    CASE ext = ".MOV" -> ".mov"
      [] OTHER -> ext

\* Lines 33-38: the first listed file whose lower-cased extension is in
\* video_extensions; 0 when there is none (video_file stays None).
FindVideoFile(files) ==
    LET hits == {i \in 1..Len(files) : Lower(files[i].ext) \in video_extensions}
    IN IF hits = {} THEN 0 ELSE CHOOSE i \in hits : \A k \in hits : i <= k

\* What running ffprobe on the video does: subprocess.run raises
\* FileNotFoundError (no ffprobe) or another error, or returns with an exit
\* code and the text of stdout.
Probes ==
    {[launch |-> "ok", returncode |-> 0, stdout |-> t] :
        t \in {"45.000000", "89.999000", "90.000000", "120.500000", "N/A"}}
    \cup {[launch |-> "ok", returncode |-> 1, stdout |-> ""],
          [launch |-> "FileNotFoundError", returncode |-> 0, stdout |-> ""],
          [launch |-> "OSError", returncode |-> 0, stdout |-> ""]}

NoProbe == [launch |-> "ok", returncode |-> 1, stdout |-> ""]

\* float(duration_str), the value in milliseconds; ok is FALSE on ValueError.
ParseFloat(t) ==
    CASE t = "45.000000" -> [ok |-> TRUE, ms |-> 45000]
      [] t = "89.999000" -> [ok |-> TRUE, ms |-> 89999]
      [] t = "90.000000" -> [ok |-> TRUE, ms |-> 90000]
      [] t = "120.500000" -> [ok |-> TRUE, ms |-> 120500]
      [] OTHER -> [ok |-> FALSE, ms |-> 0]

\* None as the result of get_video_duration.
UnknownDuration == [raised |-> FALSE, known |-> FALSE, ms |-> 0]

\* get_video_duration with only FileNotFoundError caught.
GetVideoDuration_OnlyFileNotFound(pr) ==
    IF pr.launch = "FileNotFoundError" THEN UnknownDuration
    ELSE IF pr.launch # "ok" THEN [raised |-> TRUE, known |-> FALSE, ms |-> 0]
    ELSE IF pr.returncode = 0
      THEN IF ParseFloat(pr.stdout).ok
             THEN [raised |-> FALSE, known |-> TRUE, ms |-> ParseFloat(pr.stdout).ms]
             ELSE UnknownDuration
    ELSE UnknownDuration

\* get_video_duration(video_path): the duration, or None (known = FALSE);
\* FileNotFoundError and every other Exception of subprocess.run are caught,
\* so is the ValueError of float().
GetVideoDuration(pr) ==
    IF pr.launch # "ok" THEN UnknownDuration
    ELSE IF pr.returncode = 0
      THEN IF ParseFloat(pr.stdout).ok
             THEN [raised |-> FALSE, known |-> TRUE, ms |-> ParseFloat(pr.stdout).ms]
             ELSE UnknownDuration
    ELSE UnknownDuration

\* f"{n:02d}" as a sequence of characters, for n < 100.
TwoDigits(n) ==
    LET Digit(d) == <<"0", "1", "2", "3", "4", "5", "6", "7", "8", "9">>[d + 1]
    IN <<Digit(n \div 10), Digit(n % 10)>>

\* format_duration(seconds) for a number: minutes = int(seconds // 60),
\* secs = int(seconds % 60), "mm:ss".
FormatDuration(ms) ==
    LET minutes == (ms \div 1000) \div 60
        secs == (ms \div 1000) % 60
    IN TwoDigits(minutes) \o <<":">> \o TwoDigits(secs)

\* Lines 49-54 with "<=" for "<".
VideoType_Inclusive(duration_seconds) ==
    IF duration_seconds.known
      THEN IF duration_seconds.ms <= ReelLimit THEN "REEL" ELSE "POST"
      ELSE "UNKNOWN"

\* Lines 49-54: video_type.
VideoType(duration_seconds) ==
    IF duration_seconds.known
      THEN IF duration_seconds.ms < ReelLimit THEN "REEL" ELSE "POST"
      ELSE "UNKNOWN"

(***************************************************************************)
(* Posted/status.json of a folder.  state: "missing", "unreadable" (open   *)
(* raises) or "file"; json: what json.load makes of the content, "invalid" *)
(* (empty or malformed), "nonobject" (a list, say) or "object"; posted:    *)
(* the member of that name, as JSON text.                                  *)
(***************************************************************************)
Marker(state, json, posted) == [state |-> state, json |-> json, posted |-> posted]

NoMarker == Marker("missing", "invalid", Absent)

Markers ==
    {NoMarker, Marker("unreadable", "invalid", Absent),
     Marker("file", "invalid", Absent), Marker("file", "nonobject", Absent)}
    \cup {Marker("file", "object", v) : v \in {Absent, "false", "0", "true", "\"no\""}}

\* Python truthiness of a JSON value; a missing member is None.
Truthy(v) == v \notin {Absent, "false", "null", "0", "\"\""}

\* The try body of check_posted_status: open, json.load, .get('posted').
\* "raise": open fails, json.load fails, or the value has no .get.
TryReadMarker(m) ==
    IF m.state = "unreadable" \/ m.json # "object" THEN "raise"
    ELSE IF Truthy(m.posted) THEN "POSTED"
    ELSE "fallthrough"

\* check_posted_status with any marker that parses taken as posted.
CheckPostedStatus_AnyObject(m) ==
    IF m.state = "missing" THEN [raised |-> FALSE, status |-> "UNPOSTED"]
    ELSE IF m.state = "file" /\ m.json = "object"
      THEN [raised |-> FALSE, status |-> "POSTED"]
    ELSE [raised |-> FALSE, status |-> "UNPOSTED"]

\* check_posted_status(folder_path, video_file): every exception of the try
\* body is caught ("except Exception") and the function falls through to
\* return 'UNPOSTED'.
CheckPostedStatus(m) ==
    IF m.state = "missing" THEN [raised |-> FALSE, status |-> "UNPOSTED"]
    ELSE IF TryReadMarker(m) = "POSTED"
      THEN [raised |-> FALSE, status |-> "POSTED"]
    ELSE [raised |-> FALSE, status |-> "UNPOSTED"]

\* One entry of the upload folder: a plain file, a folder without a video,
\* or a folder with a video, its probe outcome and its marker.
Entries(name) ==
    {[folder_name |-> name, isdir |-> FALSE, files |-> <<>>,
      probe |-> NoProbe, marker |-> NoMarker]}
    \cup {[folder_name |-> name, isdir |-> TRUE, files |-> f,
           probe |-> NoProbe, marker |-> NoMarker] :
             f \in {g \in FileLists : FindVideoFile(g) = 0}}
    \cup {[folder_name |-> name, isdir |-> TRUE, files |-> f,
           probe |-> pr, marker |-> m] :
             f \in {g \in FileLists : FindVideoFile(g) # 0},
             pr \in Probes, m \in Markers}

\* Lines 43-72: the video_data of a folder that holds a video.
VideoData(e) ==
    LET duration_seconds == GetVideoDuration(e.probe)
    IN [folder_name |-> e.folder_name,
        video_file |-> e.files[FindVideoFile(e.files)],
        duration_seconds |-> duration_seconds,
        video_type |-> VideoType(duration_seconds),
        duration_formatted |-> IF duration_seconds.known
                                  THEN FormatDuration(duration_seconds.ms)
                                  ELSE <<"N", "/", "A">>,
        status |-> CheckPostedStatus(e.marker).status]

\* scan_folder(upload_folder), lines 20-26: an empty or missing path returns
\* []; os.listdir of a path that is not a directory raises.
ScanCall ==
    /\ scan_pc = "idle"
    /\ \E r \in Roots :
          /\ upload_folder' = r
          /\ scan_pc' = IF r.path = "" \/ r.kind = "missing" THEN "returned"
                        ELSE IF r.kind = "file" THEN "raised"
                        ELSE "loop"
    /\ listing' = <<>>
    /\ video_data_list' = <<>>
    /\ UNCHANGED <<runnerVars, queueVars, decoderVars, markVars>>

\* One round of the loop of line 26, for the next entry of the listing.
ScanEntry ==
    /\ scan_pc = "loop"
    /\ Len(listing) < MaxEntries
    /\ \E e \in Entries(Names[Len(listing) + 1]) :
          /\ listing' = Append(listing, e)
          /\ IF ~e.isdir \/ FindVideoFile(e.files) = 0
               THEN UNCHANGED <<video_data_list, scan_pc>>
               ELSE IF \/ GetVideoDuration(e.probe).raised
                       \/ CheckPostedStatus(e.marker).raised
                 THEN scan_pc' = "raised" /\ UNCHANGED video_data_list
               ELSE /\ video_data_list' = Append(video_data_list, VideoData(e))
                    /\ UNCHANGED scan_pc
    /\ UNCHANGED <<runnerVars, queueVars, decoderVars, markVars, upload_folder>>

\* The listing is exhausted: return video_data_list.
ScanReturn ==
    /\ scan_pc = "loop"
    /\ scan_pc' = "returned"
    /\ UNCHANGED <<runnerVars, queueVars, decoderVars, markVars, upload_folder, listing,
                   video_data_list>>

NextScan ==
    \/ ScanCall
    \/ ScanEntry
    \/ ScanReturn

SpecScan == Init /\ [][NextScan]_vars

\* ------------------------------------------------------------ mark as posted

MaxMarks == 2         \* calls of handle_mark_posted
MaxChecks == 2        \* scans of the folder

\* The marker handle_mark_posted writes: {'posted': True, 'timestamp': ...,
\* 'method': 'manual'}.
NewMarker == Marker("file", "object", "true")

\* status.json right after open(status_path, 'w'): it exists and is empty.
TruncatedMarker == Marker("file", "empty", Absent)

\* The markers a folder can hold when the program starts.
StartMarkers ==
    {NoMarker, Marker("unreadable", "invalid", Absent),
     Marker("file", "invalid", Absent), Marker("file", "object", "false"),
     Marker("file", "object", "true")}

\* The folder as the last scan_videos has left it in the table.
InitMarker ==
    /\ InitRunner /\ InitDecoder /\ InitScan /\ InitQueue
    /\ status_file \in StartMarkers
    /\ posted_dir \in IF status_file.state = "missing"
                        THEN {"absent", "dir", "blocked"} ELSE {"dir"}
    /\ committed = status_file
    /\ mark = [pc |-> "idle", result |-> "none", count |-> 0,
               was_status |-> "UNPOSTED", was_log |-> 0]
    /\ ui_status = CheckPostedStatus(status_file).status
    /\ ui_log = 0
    /\ chk = [pc |-> "idle", status |-> "", seen |-> NoMarker, quiet |-> TRUE,
              after |-> "none", ok |-> {}, count |-> 0]

\* A step of the write while a check is under way: the check is no longer
\* undisturbed.
Disturbed == IF chk.pc \in {"open", "load"} THEN [chk EXCEPT !.quiet = FALSE] ELSE chk

\* The exception leaves handle_mark_posted: nothing in it catches.
MarkRaise == mark' = [mark EXCEPT !.pc = "idle", !.result = "raised"]

MarkGoto(pc) == mark' = [mark EXCEPT !.pc = pc]

\* The slot is called (lines 234-242).
MarkCall ==
    /\ mark.pc = "idle"
    /\ mark.count < MaxMarks
    /\ mark' = [pc |-> "makedirs", result |-> "pending", count |-> mark.count + 1,
                was_status |-> ui_status, was_log |-> ui_log]
    /\ chk' = Disturbed
    /\ UNCHANGED <<posted_dir, status_file, committed, ui_status, ui_log>>
    /\ UNCHANGED <<runnerVars, queueVars, decoderVars, scanVars>>

\* os.makedirs with the failure swallowed and the slot going on to the UI.
MarkMakedirs_Swallowed ==
    /\ mark.pc = "makedirs"
    /\ IF posted_dir = "blocked"
         THEN MarkGoto("ui") /\ UNCHANGED posted_dir
         ELSE MarkGoto("open") /\ posted_dir' = "dir"
    /\ chk' = Disturbed
    /\ UNCHANGED <<status_file, committed, ui_status, ui_log>>
    /\ UNCHANGED <<runnerVars, queueVars, decoderVars, scanVars>>

\* os.makedirs(posted_dir, exist_ok=True)
MarkMakedirs ==
    /\ mark.pc = "makedirs"
    /\ IF posted_dir = "blocked"
         THEN MarkRaise /\ UNCHANGED posted_dir
         ELSE MarkGoto("open") /\ posted_dir' = "dir"
    /\ chk' = Disturbed
    /\ UNCHANGED <<status_file, committed, ui_status, ui_log>>
    /\ UNCHANGED <<runnerVars, queueVars, decoderVars, scanVars>>

\* open(status_path, 'w', ...): creates the file or truncates it in place;
\* raises when the file cannot be opened for writing.
MarkOpen ==
    /\ mark.pc = "open"
    /\ IF status_file.state = "unreadable"
         THEN MarkRaise /\ UNCHANGED status_file
         ELSE MarkGoto("dump") /\ status_file' = TruncatedMarker
    /\ chk' = Disturbed
    /\ UNCHANGED <<posted_dir, committed, ui_status, ui_log>>
    /\ UNCHANGED <<runnerVars, queueVars, decoderVars, scanVars>>

\* The with block whose buffered text never reaches the file.
MarkDump_NoFlush ==
    /\ mark.pc = "dump"
    /\ MarkGoto("ui")
    /\ chk' = Disturbed
    /\ UNCHANGED <<posted_dir, status_file, committed, ui_status, ui_log>>
    /\ UNCHANGED <<runnerVars, queueVars, decoderVars, scanVars>>

\* json.dump(status_data, f, indent=2) and the end of the with block: the
\* buffered text reaches the file when it is closed, or the write raises
\* (disk full, I/O error) and the file stays as open left it.
MarkDump ==
    /\ mark.pc = "dump"
    /\ \/ /\ MarkGoto("ui")
          /\ status_file' = NewMarker
          /\ committed' = NewMarker
          /\ chk' = IF chk.pc \in {"open", "load"}
                      THEN [chk EXCEPT !.quiet = FALSE, !.ok = @ \cup {NewMarker}]
                      ELSE chk
       \/ /\ MarkRaise
          /\ chk' = Disturbed
          /\ UNCHANGED <<status_file, committed>>
    /\ UNCHANGED <<posted_dir, ui_status, ui_log>>
    /\ UNCHANGED <<runnerVars, queueVars, decoderVars, scanVars>>

\* self.video_queue_page.update_video_status(folder_name, 'POSTED')
MarkUpdateStatus ==
    /\ mark.pc = "ui"
    /\ ui_status' = "POSTED"
    /\ MarkGoto("log")
    /\ UNCHANGED <<posted_dir, status_file, committed, ui_log, chk>>
    /\ UNCHANGED <<runnerVars, queueVars, decoderVars, scanVars>>

\* self.logs_page.add_log({'level': 'success', 'message': 'Marked as
\* posted: ...'}); the slot returns.
MarkLog ==
    /\ mark.pc = "log"
    /\ ui_log' = ui_log + 1
    /\ mark' = [mark EXCEPT !.pc = "idle", !.result = "returned"]
    /\ UNCHANGED <<posted_dir, status_file, committed, ui_status, chk>>
    /\ UNCHANGED <<runnerVars, queueVars, decoderVars, scanVars>>

CheckDone(st, m) == chk' = [chk EXCEPT !.pc = "done", !.status = st, !.seen = m]

\* check_posted_status, line 129: os.path.exists(status_path).
CheckCall ==
    /\ chk.pc \in {"idle", "done"}
    /\ chk.count < MaxChecks
    /\ LET c == [chk EXCEPT !.count = @ + 1, !.quiet = (mark.pc = "idle"),
                            !.after = mark.result, !.ok = {committed}]
       IN IF status_file.state = "missing"
            THEN chk' = [c EXCEPT !.pc = "done", !.status = "UNPOSTED",
                                  !.seen = status_file]
            ELSE chk' = [c EXCEPT !.pc = "open", !.status = "", !.seen = NoMarker]
    /\ UNCHANGED <<posted_dir, status_file, committed, mark, ui_status, ui_log>>
    /\ UNCHANGED <<runnerVars, queueVars, decoderVars, scanVars>>

\* Line 131: open(status_path, 'r'); a failure is caught and UNPOSTED
\* returned.
CheckOpen ==
    /\ chk.pc = "open"
    /\ IF status_file.state = "unreadable"
         THEN CheckDone("UNPOSTED", status_file)
         ELSE chk' = [chk EXCEPT !.pc = "load"]
    /\ UNCHANGED <<posted_dir, status_file, committed, mark, ui_status, ui_log>>
    /\ UNCHANGED <<runnerVars, queueVars, decoderVars, scanVars>>

\* Lines 132-138: json.load reads what the file holds now.
CheckLoad ==
    /\ chk.pc = "load"
    /\ CheckDone(IF TryReadMarker(status_file) = "POSTED" THEN "POSTED"
                 ELSE "UNPOSTED", status_file)
    /\ UNCHANGED <<posted_dir, status_file, committed, mark, ui_status, ui_log>>
    /\ UNCHANGED <<runnerVars, queueVars, decoderVars, scanVars>>

NextMarker ==
    \/ MarkCall
    \/ MarkMakedirs
    \/ MarkOpen
    \/ MarkDump
    \/ MarkUpdateStatus
    \/ MarkLog
    \/ CheckCall
    \/ CheckOpen
    \/ CheckLoad

SpecMarker == InitMarker /\ [][NextMarker]_vars

\* ---------------------------------------------------------- the queue page

\* The folders of the upload folder, each holding a video.
QueueFolders == {"a", "b"}

\* The 'video' field of a video_status message: a folder or some other name.
VideoNames == QueueFolders \cup {"zz"}

\* The 'status' field of a video_status message: any string.
WorkerStatuses == {"posted", "unposted", "failed", "uploading", ""}

\* str.upper()
Upper(status) ==
    CASE status = "posted" -> "POSTED"
      [] status = "unposted" -> "UNPOSTED"
      [] status = "failed" -> "FAILED"
      [] status = "uploading" -> "UPLOADING"
      [] OTHER -> status

\* What scan_folder makes of folder f as it is on disk.
QueueEntry(f) ==
    [folder_name |-> f, isdir |-> TRUE,
     files |-> <<[stem |-> "clip", ext |-> ".mp4"]>>,
     probe |-> [launch |-> "ok", returncode |-> 0, stdout |-> "45.000000"],
     marker |-> markers[f]]

\* The program starts with an empty queue over folders with any markers.
InitQueuePage ==
    /\ InitRunner /\ InitDecoder /\ InitScan /\ InitMark
    /\ video_data = <<>>
    /\ markers \in [QueueFolders -> StartMarkers]

\* update_video_status(video_name, status) on the list data: the first item
\* of that folder name gets status.upper(); no item, no change.
UpdateVideoStatus(data, video_name, status) ==
    LET hits == {i \in 1..Len(data) : data[i].folder_name = video_name}
    IN IF hits = {} THEN data
       ELSE LET i == CHOOSE k \in hits : \A h \in hits : k <= h
            IN [data EXCEPT ![i].status = Upper(status)]

\* scan_videos, line 107: self.video_data = self.scanner.scan_folder(...)
ScanVideos ==
    /\ video_data' = <<VideoData(QueueEntry("a")), VideoData(QueueEntry("b"))>>
    /\ UNCHANGED <<runnerVars, decoderVars, scanVars, markVars, markers>>

\* handle_mark_posted for the row of folder f: makedirs or open raises and
\* nothing is written, or the write raises after open has truncated the
\* file, or the marker is written and the row is updated.
HandleMarkPosted ==
    \E f \in QueueFolders :
       /\ \E i \in 1..Len(video_data) : video_data[i].folder_name = f
       /\ \/ /\ markers[f].state \in {"missing", "unreadable"}
             /\ UNCHANGED <<video_data, markers>>
          \/ /\ markers[f].state # "unreadable"
             /\ markers' = [markers EXCEPT ![f] = TruncatedMarker]
             /\ UNCHANGED video_data
          \/ /\ markers[f].state # "unreadable"
             /\ markers' = [markers EXCEPT ![f] = NewMarker]
             /\ video_data' = UpdateVideoStatus(video_data, f, "POSTED")
       /\ UNCHANGED <<runnerVars, decoderVars, scanVars, markVars>>

\* handle_video_status(video_name, status), the slot of video_status_changed;
\* its log entry goes to the logs page.
HandleVideoStatus ==
    \E video_name \in VideoNames, status \in WorkerStatuses :
       /\ video_data' = UpdateVideoStatus(video_data, video_name, status)
       /\ UNCHANGED <<runnerVars, decoderVars, scanVars, markVars, markers>>

NextQueue ==
    \/ ScanVideos
    \/ HandleMarkPosted
    \/ HandleVideoStatus

SpecQueue == InitQueuePage /\ [][NextQueue]_vars

\* ------------------------------------------------------------------ claims

ThreadsActive == {j \in Jobs : Active(j)}
WorkersAlive == {p \in Jobs : pstate[p] = "alive"}

\* A step of the main thread inside stop (the call included), and the
\* supervisor's state at the moment that stop was called.
StopStep ==
    \/ mpc = "idle" /\ op' = "stop" /\ calls' = calls + 1
    \/ mpc # "idle" /\ mpc' # mpc
AtStopCall == IF mpc = "idle" THEN Snapshot ELSE snap
StopReturns == StopStep /\ mpc' = "idle"

\* C1: at most one job runs at a time: in every reachable state at most one
\* worker process has been spawned and not yet exited, and at most one
\* reader thread is active.
C1_AtMostOneJob ==
    /\ Cardinality(WorkersAlive) <= 1
    /\ Cardinality(ThreadsActive) <= 1

\* C2: run_command called while the running flag is set returns False,
\* starts no reader thread, spawns no worker process, emits exactly one Log
\* event of level error and leaves the running flag and the process handle
\* unchanged.
C2_RunCommandRejected ==
    [][(calls' = calls + 1 /\ op' = "run_command" /\ is_running) =>
         /\ ret' = "False"
         /\ tpc' = tpc
         /\ pstate' = pstate
         /\ Len(events'[0]) = Len(events[0]) + 1
         /\ events'[0][Len(events'[0])].kind = "Log"
         /\ events'[0][Len(events'[0])].level = "error"
         /\ SubSeq(events'[0], 1, Len(events[0])) = events[0]
         /\ \A k \in Jobs : events'[k] = events[k]
         /\ is_running' = is_running
         /\ process' = process]_vars

C2_Witness == op = "run_command" /\ ret = "False" /\ ErrorLogs = 1

\* C3: stop called when no job is running (the running flag is false and no
\* accepted job is still about to set it) returns False, emits no event (so
\* no warn Log), sends no terminate and no kill, and leaves the running flag
\* and the process handle unchanged.
C3_StopWhenIdle ==
    [][(StopStep /\ ~AtStopCall.running /\ ~AtStopCall.pending) =>
         /\ mpc' = "idle" => ret' = "False"
         /\ mpc' \in {"idle", "s_chk2"}
         /\ events' = events
         /\ termReq' = termReq
         /\ killReq' = killReq
         /\ is_running' = is_running
         /\ process' = process]_vars

\* stop has read a handle that is still set, after a job whose flag is
\* already cleared, and is about to test the flag.
C3_Witness == mpc = "s_chk2" /\ ~snap.running /\ ~snap.pending

\* C4: stop called while a job is running (flag set, handle present) returns
\* True and ends with the running flag cleared and exactly one warn Log
\* emitted, whether the worker exits within the grace period, is killed
\* after the timeout, or had already exited on its own.
C4_StopWhileRunning ==
    [][(StopReturns /\ AtStopCall.running /\ AtStopCall.handle # None) =>
         /\ ret' = "True"
         /\ ~is_running'
         /\ WarnLogs' = AtStopCall.warns + 1]_vars

\* C5: stop is safe to call concurrently with an in-flight start: it never
\* acts on an absent process handle and so never fails, and a stop issued
\* after run_command returned True and before that job's Completion is not
\* silently ignored (it returns True).
C5_StopSafeWithStart ==
    [][StopReturns =>
         /\ ret' # "raised"
         /\ AtStopCall.inflight => ret' = "True"]_vars

\* C6: every accepted run_command gets exactly one Completion: none while
\* its reader thread is still inside try/except, exactly one from the moment
\* the thread reaches finally, on every path (worker exit, spawn failure,
\* stop, failing stderr read, any exception).
C6_ExactlyOneCompletion ==
    \A j \in Jobs :
        Completions(j) = IF tpc[j] \in {"fin1", "fin2", "done"} THEN 1 ELSE 0

\* A job whose worker was terminated by stop has finished.
C6_Witness == \E j \in Jobs : tpc[j] = "done" /\ termReq[j] /\ Completions(j) = 1

\* C7: Completion is the last event of a job: nothing follows it in the
\* job's log, the warn Log of the stop that cancelled the job included.
C7_CompletionIsLast ==
    \A j \in Jobs : \A i \in 1..Len(events[j]) :
        events[j][i].kind = "Completion" => i = Len(events[j])

\* C8: the events of one job are emitted in the order their source lines
\* were read from the worker's stdout: along a job's log the line numbers
\* of the decoded events only grow.
C8_EventsInLineOrder ==
    \A p \in Jobs : \A a, b \in 1..Len(events[p]) :
        (a < b /\ events[p][a].idx > 0 /\ events[p][b].idx > 0)
            => events[p][a].idx < events[p][b].idx

\* C9: once the worker has exited, the Completion of its job is decided by
\* the exit code alone: success = true exactly on exit code 0, and on a
\* non-zero code the message is "Command failed" with the worker's stderr.
C9_OutcomeByExitCode ==
    \A j \in Jobs : \A i \in 1..Len(events[j]) :
        (events[j][i].kind = "Completion" /\ pstate[j] = "exited") =>
            /\ events[j][i].ok = (code[j] = 0)
            /\ code[j] # 0 => /\ events[j][i].msg = "Command failed"
                              /\ events[j][i].text = j

SpawnFailed(j) ==
    \/ tpc[j] = "except" /\ err[j] = "spawn"
    \/ \E i \in 1..Len(events[j]) :
          events[j][i].kind = "Completion" /\ events[j][i].msg = "spawn"

\* C10 as claimed: when Popen raises, the running flag is never true at any
\* point of that job attempt (and a Completion(false) with the spawn error
\* is what the job emits).
C10_FlagNeverTrue ==
    \A j \in Jobs :
        /\ (tpc[j] = "except" /\ err[j] = "spawn") => ~is_running
        /\ (SpawnFailed(j) /\ tpc[j] # "except")
              => events[j] = <<CompletionEvent(j, FALSE, "spawn", 0)>>

\* C10 as amended: when Popen raises, the job emits exactly one event, a
\* Completion(false) carrying the spawn error, and no worker process exists
\* for it; the reader thread sets the running flag to true before the spawn
\* attempt and clears it in finally, after the Completion.
C10_SpawnFailure ==
    /\ [](\A j \in Jobs :
            SpawnFailed(j) =>
                /\ pstate[j] = "none"
                /\ events[j] = IF tpc[j] = "except" THEN <<>>
                               ELSE <<CompletionEvent(j, FALSE, "spawn", 0)>>)
    /\ [][\A j \in Jobs :
            /\ (tpc[j] = "start" /\ tpc'[j] # "start") => is_running'
            /\ (tpc[j] = "popen" /\ tpc'[j] # "popen") => tpc'[j] \in {"iter", "except"}
            /\ (SpawnFailed(j) /\ tpc[j] = "fin1" /\ tpc'[j] # "fin1")
                  => (~is_running' /\ Completions(j) = 1)]_vars

C10_Witness ==
    \E j \in Jobs :
        /\ tpc[j] = "done"
        /\ events[j] = <<CompletionEvent(j, FALSE, "spawn", 0)>>

\* A line that is not valid structured data: it does not parse as a JSON
\* object.
IsObjectLine(l) == JsonLoadsLine(Strip(l)).ok /\ JsonLoadsLine(Strip(l)).isdict

\* C11: decoding a line that is not valid structured data never raises and
\* never aborts the job; it yields exactly one Log of level info whose
\* message is the line with ANSI escapes stripped and whose timestamp is
\* empty, or no event when the cleaned line is empty.
C11_FallbackNeverRaises ==
    LET StripAnsi(s) == SelectSeq(s, LAMBDA x : x.t \notin {"sgr", "csi"})
        cleaned == StripAnsi(Strip(line))
    IN ~IsObjectLine(line) =>
          /\ ~decoded.raised
          /\ decoded.out = IF cleaned = <<>> THEN <<>>
                           ELSE <<LogReceived("info", cleaned, "")>>

\* The entry of the listing that an item was made from.
EntryOf(item) == CHOOSE e \in {listing[k] : k \in 1..Len(listing)} :
                    e.folder_name = item.folder_name

ItemsOf(name) ==
    {i \in 1..Len(video_data_list) : video_data_list[i].folder_name = name}

\* C12: every item is classified by its probed duration d: REEL iff d is
\* known and d < 90 s, POST if d is known and d >= 90 s (90 exactly is
\* POST), UNKNOWN iff d is unknown.
C12_ClassifyByDuration ==
    \A i \in 1..Len(video_data_list) :
        LET item == video_data_list[i]
            d == item.duration_seconds
        IN /\ d = GetVideoDuration(EntryOf(item).probe)
           /\ item.video_type = "REEL" <=> (d.known /\ d.ms < 90000)
           /\ (d.known /\ d.ms >= 90000) => item.video_type = "POST"
           /\ item.video_type = "UNKNOWN" <=> ~d.known

\* A video of exactly 90 seconds has been classified.
C12_Witness ==
    \E i \in 1..Len(video_data_list) :
        /\ video_data_list[i].duration_seconds.known
        /\ video_data_list[i].duration_seconds.ms = 90000
        /\ video_data_list[i].video_type = "POST"

\* C13: check_posted_status returns POSTED only if the marker file exists,
\* parses and has a truthy posted member; for a missing, unreadable,
\* malformed or falsy marker it returns UNPOSTED, and it never raises to
\* scan.
C13_PostedOnlyIfMarkerTruthy ==
    /\ \A k \in 1..Len(listing) : ~CheckPostedStatus(listing[k].marker).raised
    /\ \A i \in 1..Len(video_data_list) :
          LET item == video_data_list[i]
              m == EntryOf(item).marker
          IN item.status =
                IF /\ m.state = "file"
                   /\ m.json = "object"
                   /\ m.posted \in {"true", "\"no\""}
                  THEN "POSTED" ELSE "UNPOSTED"

\* A scan has met a marker that parses but is not an object, one that is
\* unreadable and one whose posted member is a non-empty string.
C13_Witness ==
    /\ scan_pc = "returned"
    /\ Len(video_data_list) = 2
    /\ EntryOf(video_data_list[1]).marker = Marker("file", "nonobject", Absent)
    /\ video_data_list[1].status = "UNPOSTED"
    /\ EntryOf(video_data_list[2]).marker = Marker("file", "object", "\"no\"")
    /\ video_data_list[2].status = "POSTED"

\* C14: round trip: a scan that follows one or more completed mark-posted
\* writes, whatever marker the folder held before, reports the item POSTED;
\* a second write does not change that.
C14_MarkThenScan ==
    (chk.pc = "done" /\ chk.quiet /\ chk.after = "returned") =>
        chk.status = "POSTED"

\* The folder was marked twice and then scanned.
C14_Witness ==
    /\ chk.pc = "done" /\ chk.quiet /\ chk.after = "returned"
    /\ mark.count = 2
    /\ chk.status = "POSTED"
    /\ ui_status = "POSTED"

\* C18: the marker write is atomic with respect to scan: a scan that
\* interleaves with a mark-posted write at any step reads either the
\* complete previous marker or the complete new one, never a half-written
\* one.
C18_AtomicMarkerWrite ==
    chk.pc = "done" => chk.seen \in chk.ok

\* C19: when writing the marker fails (creating the directory, opening or
\* writing the file raises), the call ends with the exception reported to
\* its caller, the item's in-memory status is what it was at the call and no
\* 'Marked as posted' log has been added.
C19_WriteFailureReported ==
    [][(mark.pc # "idle" /\ mark'.pc = "idle" /\ status_file' # NewMarker) =>
         /\ mark'.result = "raised"
         /\ ui_status' = mark.was_status
         /\ ui_log' = mark.was_log]_vars

\* A write has failed after the file was truncated.
C19_Witness ==
    /\ mark.pc = "idle"
    /\ mark.result = "raised"
    /\ status_file = TruncatedMarker
    /\ ui_status = "UNPOSTED"
    /\ ui_log = 0

\* C15: stop escalates in order: terminate first, then the wait of the
\* grace period, and kill only to the worker it terminated and waited for,
\* and only when that worker had not exited when the grace period ended;
\* kill is never sent to a worker before terminate.
C15_StopEscalation ==
    [][/\ \A p \in Jobs :
            (killReq'[p] /\ ~killReq[p]) =>
                (termReq[p] /\ mpc = "s_kill" /\ swt = p /\ starget = p)
       /\ (mpc # "s_kill" /\ mpc' = "s_kill") =>
                (mpc = "s_waiting" /\ termReq[swt] /\ pstate[swt] = "alive")]_vars

\* The supervisor is Idle: the running flag is false and the handle cleared.
Idle == ~is_running /\ process = None

\* C16, the part a finite run can refute: when a job ends (its reader
\* thread leaves finally) the supervisor is Idle and no other accepted job
\* is still pending or running, and an Idle supervisor without such a job
\* stays Idle (until a run_command is accepted).
C16_ReturnsToIdle ==
    [][/\ \A j \in Jobs :
            (tpc[j] # "done" /\ tpc'[j] = "done") =>
                (Idle' /\ \A k \in Jobs \ {j} : tpc'[k] \in {"unstarted", "done"})
       /\ (Idle /\ \A k \in Jobs : tpc[k] \in {"unstarted", "done"}) => Idle']_vars

\* C16, the eventuality: every accepted job ends with the supervisor Idle.
C16_EventuallyIdle ==
    \A j \in Jobs : (tpc[j] = "start") ~> (tpc[j] = "done" /\ Idle)

\* C17: a line that parses as a JSON object gives the event its type
\* selects, and exactly that one: log a Log (level defaults to info, message
\* to the empty string); progress a Progress (value defaults to 0, step to
\* the empty string); video_status a VideoStatus (video and status default
\* to the empty string); success a Log of level success (the message, or
\* "Success" when there is none); error a Log of level error (the message,
\* or "Error"); any other type, or none, gives no event and raises nothing.
C17_DispatchByType ==
    IsObjectLine(line) =>
        LET d == Strip(line)[1].d
            Or(v, dflt) == IF v = Absent THEN dflt ELSE v
            log(level, message) ==
                [kind |-> "Log", level |-> level, message |-> message,
                 timestamp |-> Or(d.timestamp, "")]
        IN /\ ~decoded.raised
           /\ d.type = "log" =>
                 decoded.out = <<log(Or(d.level, "info"), Or(d.message, ""))>>
           /\ d.type = "progress" =>
                 decoded.out = <<[kind |-> "Progress", value |-> Or(d.value, "0"),
                                  step |-> Or(d.step, "")]>>
           /\ d.type = "video_status" =>
                 decoded.out = <<[kind |-> "VideoStatus", video |-> Or(d.video, ""),
                                  status |-> Or(d.status, "")]>>
           /\ d.type = "success" =>
                 decoded.out = <<log("success", Or(d.message, "Success"))>>
           /\ d.type = "error" =>
                 decoded.out = <<log("error", Or(d.message, "Error"))>>
           /\ d.type \in {Absent, "other"} => decoded.out = <<>>

\* A success object without a message has been decoded.
C17_Witness ==
    /\ IsObjectLine(line)
    /\ Strip(line)[1].d.type = "success"
    /\ Strip(line)[1].d.message = Absent
    /\ decoded.out = <<LogReceived("success", "Success", "")>>

\* C20: scan returns an empty list when the root path is empty or does not
\* exist; otherwise it returns exactly one item for each immediate
\* subdirectory that holds a file with an allow-listed extension (whatever
\* its case), no item for any other entry, and no two items for one folder.
C20_ScanItems ==
    LET HasVideo(e) ==
            /\ e.isdir
            /\ \E i \in 1..Len(e.files) :
                  e.files[i].ext \in {".mp4", ".MP4", ".mov", ".MOV", ".avi",
                                      ".mkv", ".webm", ".flv"}
    IN scan_pc \in {"returned", "raised"} =>
          IF upload_folder.path = "" \/ upload_folder.kind = "missing"
            THEN scan_pc = "returned" /\ video_data_list = <<>>
            ELSE /\ scan_pc = "returned"
                 /\ \A k \in 1..Len(listing) :
                       Cardinality(ItemsOf(listing[k].folder_name)) =
                          IF HasVideo(listing[k]) THEN 1 ELSE 0
                 /\ \A i \in 1..Len(video_data_list) :
                       \E k \in 1..Len(listing) :
                          listing[k].folder_name = video_data_list[i].folder_name

\* C21: every item of the in-memory queue has status POSTED or UNPOSTED, after
\* a scan and after any mark-posted actions and video_status events applied
\* through update_video_status, whatever status the worker sends.
C21_StatusPostedOrUnposted ==
    \A i \in 1..Len(video_data) : video_data[i].status \in {"POSTED", "UNPOSTED"}

\* C21, second half: a scan leaves every item with the status derived from
\* the marker on disk, whatever the queue held before.
C21_ScanSupersedes ==
    [][ScanVideos =>
         \A i \in 1..Len(video_data') :
            video_data'[i].status =
               CheckPostedStatus(markers[video_data'[i].folder_name]).status]_vars


\* C22: the duration probe never raises to scan; it returns the parsed
\* number only on exit code 0 with parsable output and None on a non-zero
\* exit, unparsable output, a missing ffprobe or any other failure to run
\* it; an item whose duration is unknown is kept in the scan result with
\* type UNKNOWN and duration text N/A.
C22_ProbeNeverRaises ==
    /\ scan_pc = "raised" => upload_folder.kind = "file"
    /\ \A k \in 1..Len(listing) :
          LET e == listing[k]
              pr == e.probe
              parsed == pr.launch = "ok" /\ pr.returncode = 0
                        /\ pr.stdout \in {"45.000000", "89.999000",
                                          "90.000000", "120.500000"}
          IN (e.isdir /\ FindVideoFile(e.files) # 0) =>
                \E i \in ItemsOf(e.folder_name) :
                   LET item == video_data_list[i]
                   IN /\ item.duration_seconds.known <=> parsed
                      /\ parsed => item.duration_seconds.ms = ParseFloat(pr.stdout).ms
                      /\ ~parsed => /\ item.video_type = "UNKNOWN"
                                    /\ item.duration_formatted = <<"N", "/", "A">>

\* A scan has returned two items of unknown duration: the probe of the first
\* could not be run, the probe of the second printed N/A.
C22_Witness ==
    /\ scan_pc = "returned"
    /\ Len(video_data_list) = 2
    /\ \A i \in 1..2 : video_data_list[i].video_type = "UNKNOWN"
    /\ listing[1].probe.launch = "OSError"
    /\ listing[2].probe.stdout = "N/A"


\* C23: a reader thread only clears the state of its own job: once stop has
\* returned True and a later run_command has been accepted, the finally
\* block of the earlier job's reader leaves the running flag and the
\* process handle of the newer job alone, so while the newer worker is alive
\* and its reader is in the read loop the flag is set and the handle is the
\* newer process (run_command is rejected, stop terminates it).
C23_ReaderClearsOwnJobOnly ==
    (/\ mpc = "idle" /\ op = "run_command" /\ ret = "True"
     /\ calls = 3 /\ WarnLogs >= 1
     /\ pstate[2] = "alive"
     /\ tpc[2] \in {"iter", "read", "decode"})
       => is_running /\ process = 2

\* C24: no single stdout line ends the reading of the output: whatever a
\* line holds, the read loop is not left by an exception of decoding it, and
\* no Completion reports a decode error in place of the worker's exit code.
C24_NoLineEndsConsumption ==
    \A j \in Jobs :
        /\ err[j] # "decode"
        /\ \A i \in 1..Len(events[j]) :
              events[j][i].kind = "Completion" => events[j][i].msg # "decode"

\* C25: when the Completion of a job has been emitted the supervisor is
\* Idle for that job, running flag false and process handle cleared, so a
\* run_command made in response to the Completion is not rejected.
C25_IdleAtCompletion ==
    \A j \in Jobs : Completions(j) >= 1 => Idle

=============================================================================
